---------------------------- MODULE Spec2Model ----------------------------
(***************************************************************************)
(* A model of slackish.py: the command registry (Command), the mention     *)
(* parser (parse_direct_mention, parse_bot_commands), the dispatcher       *)
(* (command_to_fn_call, list_to_dict, cmd_help) and the event callback     *)
(* (handle) with its outbound queue (send, post, error, flush).            *)
(* Spec is the program with events delivered one at a time; SpecParse and  *)
(* SpecPairs apply the parser and the keyword pairing to bounded inputs;   *)
(* SpecSingleton interleaves concurrent Slackish(...) calls line by line   *)
(* (SingletonMeta.__call__) and SpecRace interleaves two handle calls.     *)
(*                                                                         *)
(* Python strings that the code inspects character by character (event     *)
(* text, command lines, tokens, identifiers, command names) are sequences  *)
(* of one-character strings.  Strings the code only passes along (queued   *)
(* messages, help texts, channels, clients) are TLA+ strings.              *)
(***************************************************************************)
EXTENDS Integers, Sequences, FiniteSets, TLC

VARIABLES
    BOT_ID,          \* Slackish.BOT_ID                       (line 49, 82)
    registry,        \* Command.registry / Slackish.registry  (line 31, 50)
    message_queue,   \* Slackish.message_queue                (line 43)
    channel,         \* bot.channel                           (line 139)
    web_client,      \* bot.web_client                        (line 51, 140)
    rtm_client,      \* bot.rtm_client                        (line 52, 141)
    authCalls,       \* number of auth.test calls made by serve (line 82)
    serving,         \* RTMClient(...).start() has been reached (line 84)
    startup,         \* record of the most recent Command(fn) / serve() call
    last,            \* record of the most recent handle / parse call
    _instance,       \* SingletonMeta._instance / Slackish._instance (line 18, 25)
    _lock,           \* SingletonMeta._lock: the thread holding it (line 20)
    callers,         \* the threads calling Slackish(...): where each stands
    made,            \* the objects super().__call__ has constructed (line 25)
    handlers,        \* the threads running handle: where each stands
    detached,        \* the lists message_queue was bound to before (line 154)
    outbox,          \* the chat_postMessage calls of concurrent handles
    setBy,           \* the handler that last executed line 139
    overlapped       \* two handle calls have been in progress at once

vars == <<BOT_ID, registry, message_queue, channel, web_client, rtm_client,
          authCalls, serving, startup, last, _instance, _lock, callers, made,
          handlers, detached, outbox, setBy, overlapped>>

singletonVars == <<_instance, _lock, callers, made>>
raceVars == <<handlers, detached, outbox, setBy, overlapped>>

-----------------------------------------------------------------------------
(* Values *)

None == <<"None">>      \* Python's None where a string of characters is expected
NoDoc == "None"         \* Python's None as a function's __doc__
Unset == "Unset"        \* an attribute that has not been assigned yet
NoExc == "NoExc"        \* no exception is propagating

\* Bounds of the model.
MaxEnq == 2             \* messages one handler call enqueues, at most
MaxQueue == 2           \* length of message_queue from which no further event is delivered
MaxFailIdx == 2         \* send attempts of one handle call that may raise
MaxReg == 2             \* registered command names
MaxIdLen == 3           \* length of a configured bot identifier in SpecParse
MaxArgs == 4            \* tokens after the command key in SpecPairs
MaxCallers == 2         \* threads that call Slackish(...) in SpecSingleton

-----------------------------------------------------------------------------
(* Character-level helpers *)

Whitespace == {" ", "\t", "\r", "\n"}

\* str.strip() of a sequence of characters
RECURSIVE LStrip(_)
LStrip(s) == IF s # <<>> /\ Head(s) \in Whitespace THEN LStrip(Tail(s)) ELSE s

RECURSIVE RStrip(_)
RStrip(s) ==
    IF s # <<>> /\ s[Len(s)] \in Whitespace
    THEN RStrip(SubSeq(s, 1, Len(s) - 1))
    ELSE s

Strip(s) == RStrip(LStrip(s))

\* str.lower() on the letters of the model's alphabet
LowerChar(c) ==
    CASE c = "P" -> "p"
      [] c = "I" -> "i"
      [] c = "N" -> "n"
      [] c = "G" -> "g"
      [] c = "A" -> "a"
      [] c = "U" -> "u"
      [] c = "W" -> "w"
      [] c = "B" -> "b"
      [] OTHER -> c

Lower(s) == [i \in 1..Len(s) |-> LowerChar(s[i])]

\* Python truthiness of a value that is None or a string
Truthy(v) == v # None /\ v # <<>>

-----------------------------------------------------------------------------
(* Mention parser *)

\* The least j >= from with text[j] = ">", or 0 when there is none.
FirstClose(text, from) ==
    LET js == {j \in from..Len(text) : text[j] = ">"}
    IN  IF js = {} THEN 0 ELSE CHOOSE j \in js : \A k \in js : j <= k

\* The greedy (.*): the characters from position `from` up to the first
\* newline (excluded) or the end of the text.
DotStar(text, from) ==
    LET ns == {j \in from..Len(text) : text[j] = "\n"}
        stop == IF ns = {} THEN Len(text) + 1
                ELSE CHOOSE j \in ns : \A k \in ns : j <= k
    IN  SubSeq(text, from, stop - 1)

\* re.search("^<@(|[WU].+?)>(.*)", text): the default MENTION_REGEX.  The
\* result is <<matched, group(1), group(2)>>.  The empty alternative of
\* group 1 is tried first; the second alternative takes W or U and then, lazily,
\* at least one character other than a newline up to the first ">".
MentionRegexDefault(text) ==
    IF Len(text) < 3 \/ text[1] # "<" \/ text[2] # "@"
    THEN <<FALSE, None, None>>
    ELSE IF text[3] = ">"
    THEN <<TRUE, <<>>, DotStar(text, 4)>>
    ELSE IF text[3] \in {"W", "U"}
    THEN LET j == FirstClose(text, 5)
         IN  IF j = 0 \/ \E k \in 4..(j - 1) : text[k] = "\n"
             THEN <<FALSE, None, None>>
             ELSE <<TRUE, SubSeq(text, 3, j - 1), DotStar(text, j + 1)>>
    ELSE <<FALSE, None, None>>

MENTION_REGEX(text) == MentionRegexDefault(text)

\* parse_direct_mention without the strip() of the remainder
MutParseDirectMentionNoStrip(text) ==
    LET matches == MENTION_REGEX(text)
    IN  IF matches[1] THEN <<matches[2], matches[3]>> ELSE <<None, None>>

\* parse_direct_mention: <<user id, stripped remainder>> or <<None, None>>
parse_direct_mention(text) ==
    LET matches == MENTION_REGEX(text)
    IN  IF matches[1] THEN <<matches[2], Strip(matches[3])>> ELSE <<None, None>>

\* parse_bot_commands without the test for a subtype
MutParseIgnoringSubtype(botId, ev) ==
    LET dm == parse_direct_mention(ev.text)
    IN  IF dm[1] = botId THEN <<dm[2], ev.channel>> ELSE <<None, None>>

\* An event is [text, channel, subtype, web_client, rtm_client]; subtype is
\* Unset when the key is absent from the event.
parse_bot_commands(botId, ev) ==
    IF ev.subtype = Unset
    THEN LET dm == parse_direct_mention(ev.text)
         IN  IF dm[1] = botId THEN <<dm[2], ev.channel>> ELSE <<None, None>>
    ELSE <<None, None>>

-----------------------------------------------------------------------------
(* Dispatcher: tokenizer and keyword pairing *)

Quotes == {"'", "\""}
Escape == "\\"

\* shlex.split(command): shlex in POSIX mode with whitespace_split and no
\* comment characters.  state is "ws" (between tokens), "a" (in a word), a
\* quote character (inside that quote) or Escape (after a backslash, with
\* escst the state to return to).  The result is [exc, words].
RECURSIVE ShlexRun(_, _, _, _, _, _, _)
ShlexRun(s, i, state, escst, tok, quoted, out) ==
    IF i > Len(s)
    THEN IF state \in Quotes \/ state = Escape
         THEN [exc |-> "ValueError", words |-> <<>>]
         ELSE IF state = "a" /\ (tok # <<>> \/ quoted)
         THEN [exc |-> NoExc, words |-> Append(out, tok)]
         ELSE [exc |-> NoExc, words |-> out]
    ELSE LET c == s[i] IN
         IF state = "ws"
         THEN IF c \in Whitespace
              THEN ShlexRun(s, i + 1, "ws", escst, <<>>, FALSE, out)
              ELSE IF c = Escape
              THEN ShlexRun(s, i + 1, Escape, "a", tok, quoted, out)
              ELSE IF c \in Quotes
              THEN ShlexRun(s, i + 1, c, escst, tok, quoted, out)
              ELSE ShlexRun(s, i + 1, "a", escst, <<c>>, quoted, out)
         ELSE IF state \in Quotes
         THEN IF c = state
              THEN ShlexRun(s, i + 1, "a", escst, tok, TRUE, out)
              ELSE IF c = Escape /\ state = "\""
              THEN ShlexRun(s, i + 1, Escape, state, tok, TRUE, out)
              ELSE ShlexRun(s, i + 1, state, escst, Append(tok, c), TRUE, out)
         ELSE IF state = Escape
         THEN LET kept == IF escst \in Quotes /\ c # Escape /\ c # escst
                          THEN Append(tok, Escape) ELSE tok
              IN  ShlexRun(s, i + 1, escst, escst, Append(kept, c), quoted, out)
         ELSE \* state = "a"
              IF c \in Whitespace
              THEN ShlexRun(s, i + 1, "ws", escst, <<>>, FALSE,
                            IF tok # <<>> \/ quoted THEN Append(out, tok) ELSE out)
              ELSE IF c \in Quotes
              THEN ShlexRun(s, i + 1, c, escst, tok, quoted, out)
              ELSE IF c = Escape
              THEN ShlexRun(s, i + 1, Escape, "a", tok, quoted, out)
              ELSE ShlexRun(s, i + 1, "a", escst, Append(tok, c), quoted, out)

ShlexSplit(command) == ShlexRun(command, 1, "ws", "a", <<>>, FALSE, <<>>)

\* dict(zip(it, it)) fed pair by pair: a later pair overwrites an earlier one
\* with the same key, and an unpaired last element is not consumed.
RECURSIVE ZipPairs(_, _)
ZipPairs(alist, d) ==
    IF Len(alist) < 2 THEN d
    ELSE ZipPairs(SubSeq(alist, 3, Len(alist)),
                  [k \in DOMAIN d \cup {alist[1]} |->
                      IF k = alist[1] THEN alist[2] ELSE d[k]])

EmptyDict == [k \in {} |-> <<>>]

\* A pairing in which the first pair with a key is the one kept
RECURSIVE MutZipPairsFirstWins(_, _)
MutZipPairsFirstWins(alist, d) ==
    IF Len(alist) < 2 THEN d
    ELSE MutZipPairsFirstWins(SubSeq(alist, 3, Len(alist)),
                              [k \in DOMAIN d \cup {alist[1]} |->
                                  IF k \in DOMAIN d THEN d[k] ELSE alist[2]])

MutListToDictFirstWins(alist) == MutZipPairsFirstWins(alist, EmptyDict)

list_to_dict(alist) == ZipPairs(alist, EmptyDict)

-----------------------------------------------------------------------------
(* Command registry *)

\* The functions a program decorates with Command.  A function is its
\* __name__, the parameters it declares (all without defaults), whether it
\* takes **kwargs, its co_varnames and its __doc__.
Cping == <<"p", "i", "n", "g">>
CPing == <<"P", "i", "n", "g">>
Csetname == <<"s", "e", "t", "n", "a", "m", "e">>

FnPing ==
    [id |-> "ping", name |-> Cping, params |-> {}, varkw |-> FALSE,
     varnames |-> <<>>, doc |-> "ping: replies pong"]
FnPingAgain ==
    [id |-> "ping_again", name |-> Cping, params |-> {}, varkw |-> FALSE,
     varnames |-> <<>>, doc |-> "ping: second definition"]
FnPingCap ==
    [id |-> "Ping", name |-> CPing, params |-> {}, varkw |-> FALSE,
     varnames |-> <<>>, doc |-> "Ping: capitalised"]
FnSetname ==
    [id |-> "setname", name |-> Csetname, params |-> {}, varkw |-> TRUE,
     varnames |-> <<"kwargs">>, doc |-> NoDoc]

Fns == {FnPing, FnPingAgain, FnPingCap, FnSetname}

\* The registry is Python's dict, which keeps insertion order: a sequence of
\* [name, desc] entries with distinct names.
RegKeys(reg) == {reg[i].name : i \in 1..Len(reg)}

HasKey(reg, key) == key \in RegKeys(reg)

RegGet(reg, key) ==
    reg[CHOOSE i \in 1..Len(reg) : reg[i].name = key].desc

\* d.setdefault(key, value): a key that is present keeps its value
MutRegPutKeepsFirst(reg, key, value) ==
    IF HasKey(reg, key) THEN reg
    ELSE Append(reg, [name |-> key, desc |-> value])

\* d[key] = value: replaces the value in place, or appends a new entry
RegPut(reg, key, value) ==
    IF HasKey(reg, key)
    THEN [i \in 1..Len(reg) |->
            IF reg[i].name = key THEN [name |-> key, desc |-> value] ELSE reg[i]]
    ELSE Append(reg, [name |-> key, desc |-> value])

\* The key Command.__init__ stores the descriptor under
RegistryKey(fn) == fn.name

\* Command.__init__
CommandInit(reg, fn) ==
    RegPut(reg, RegistryKey(fn),
           [cmd |-> fn, argnames |-> fn.varnames, help |-> fn.doc])

-----------------------------------------------------------------------------
(* Bot session: sends *)

\* The run of one handle call is threaded through a record:
\*   queue     Slackish.message_queue
\*   sent      the chat_postMessage calls that returned, in order
\*   attempts  the chat_postMessage calls made
\*   exc       the exception propagating, or NoExc
\*   calls     the handler calls made: [fn, kwargs, entered]
\*   caughtBy  who caught an exception, in order: [by, exc]
\* and the session it runs in is bot = [channel, web_client, registry, fails],
\* fails being the send attempts at which the transport raises.

default_error_message == "Something went wrong!"

\* web_client.chat_postMessage(channel=, text=)
ChatPostMessage(st, bot, text) ==
    IF st.exc # NoExc THEN st
    ELSE IF (st.attempts + 1) \in bot.fails
    THEN [st EXCEPT !.attempts = @ + 1, !.exc = "SlackApiError"]
    ELSE [st EXCEPT !.attempts = @ + 1,
                    !.sent = Append(@, [channel |-> bot.channel,
                                        client |-> bot.web_client,
                                        text |-> text])]

post(st, bot, message) == ChatPostMessage(st, bot, message)

ErrorText(error_message) ==
    "Error: " \o (IF error_message = "" \/ error_message = NoDoc
                  THEN default_error_message ELSE error_message)

error(st, bot, error_message) == ChatPostMessage(st, bot, ErrorText(error_message))

RECURSIVE PostEach(_, _, _)
PostEach(st, bot, messages) ==
    IF messages = <<>> \/ st.exc # NoExc THEN st
    ELSE PostEach(post(st, bot, Head(messages)), bot, Tail(messages))

\* cmd_help(command=None)
cmd_help(st, bot, command) ==
    IF st.exc # NoExc THEN st
    ELSE IF Truthy(command)
    THEN IF HasKey(bot.registry, command)
         THEN post(st, bot, RegGet(bot.registry, command).help)
         ELSE [st EXCEPT !.exc = "KeyError"]
    ELSE PostEach(st, bot,
                  [i \in 1..Len(bot.registry) |-> bot.registry[i].desc.help])

RECURSIVE Reverse(_)
Reverse(q) == IF q = <<>> THEN <<>> ELSE Append(Reverse(Tail(q)), Head(q))

\* A flush that sends the newest message first
MutFlushNewestFirst(st, bot, queue) == PostEach(st, bot, Reverse(queue))

\* flush(message_queue)
flush(st, bot, queue) == PostEach(st, bot, queue)

-----------------------------------------------------------------------------
(* Dispatcher *)

\* cmd_function(**kwargs): Python binds the keyword arguments first and
\* raises TypeError when one is not accepted; then the body runs, which in
\* this model enqueues beh.msgs with Slackish.send and returns or raises
\* beh.exc.
Binds(fn, kwargs) == fn.varkw \/ DOMAIN kwargs \subseteq fn.params

CallHandler(st, fn, kwargs, beh) ==
    IF Binds(fn, kwargs)
    THEN [st EXCEPT !.calls = Append(@, [fn |-> fn.id, kwargs |-> kwargs,
                                         entered |-> TRUE]),
                    !.queue = @ \o beh.msgs,
                    !.exc = beh.exc]
    ELSE [st EXCEPT !.calls = Append(@, [fn |-> fn.id, kwargs |-> kwargs,
                                         entered |-> FALSE]),
                    !.exc = "TypeError"]

\* The pairing applied to every token, the command key included
MutKwargsFromAllWords(command_words) == list_to_dict(command_words)

\* The arguments the dispatcher passes to the handler
HandlerKwargs(command_words) == list_to_dict(Tail(command_words))

\* The key the dispatcher looks up
CommandKey(command_words) == Lower(command_words[1])

\* A dispatcher with no except clause
MutDispatcherCatchesNothing(exc) == FALSE

\* Which exceptions the dispatcher's except clause catches
DispatcherCatches(exc) == exc = "KeyError"

\* The except KeyError block
InvalidCommand(st, bot) ==
    cmd_help(error([st EXCEPT !.exc = NoExc,
                              !.caughtBy = Append(@, [by |-> "command_to_fn_call",
                                                      exc |-> st.exc])],
                   bot, "Invalid command!"),
             bot, None)

command_to_fn_call(st, bot, command, beh) ==
    LET sp == ShlexSplit(command) IN
    IF sp.exc # NoExc THEN [st EXCEPT !.exc = sp.exc]
    ELSE IF sp.words = <<>> THEN [st EXCEPT !.exc = "IndexError"]
    ELSE LET command_key == CommandKey(sp.words)
             tried ==
                 IF HasKey(bot.registry, command_key)
                 THEN CallHandler(st, RegGet(bot.registry, command_key).cmd,
                                  HandlerKwargs(sp.words), beh)
                 ELSE [st EXCEPT !.exc = "KeyError"]
         IN  IF DispatcherCatches(tried.exc)
             THEN InvalidCommand(tried, bot)
             ELSE tried

-----------------------------------------------------------------------------
(* Bot session: the event callback *)

FallbackText == "I'm sorry, I don't understand! "

NewRun(queue) ==
    [queue |-> queue, sent |-> <<>>, attempts |-> 0, exc |-> NoExc,
     calls |-> <<>>, caughtBy |-> <<>>]

\* Which exceptions handle's except clause catches: every Exception
HandleCatches(exc) == exc # NoExc

\* The try/except of handle around command_to_fn_call
HandleTry(st, bot, command, beh) ==
    LET tried == command_to_fn_call(st, bot, command, beh) IN
    IF HandleCatches(tried.exc)
    THEN cmd_help(post([tried EXCEPT !.exc = NoExc,
                                     !.caughtBy = Append(@, [by |-> "handle",
                                                             exc |-> tried.exc])],
                       bot, FallbackText),
                  bot, None)
    ELSE tried

\* handle without line 154
MutKeepQueue(st) == st

\* Slackish.message_queue = [] after the flush
ClearQueue(st) == [st EXCEPT !.queue = <<>>]

\* bot.flush(Slackish.message_queue); Slackish.message_queue = []
HandleFlush(st, bot) ==
    IF st.exc # NoExc THEN st
    ELSE LET flushed == flush(st, bot, st.queue) IN
         IF flushed.exc # NoExc THEN flushed ELSE ClearQueue(flushed)

\* "if command is None: return"
MutProceedsUnlessNone(command) == command # None

\* Whether handle goes past "if not command: return"
Proceeds(command) == Truthy(command)

\* handle without lines 139-141: the session keeps what it had
MutSessionKeepsChannel(parsed, ev) ==
    [channel |-> channel, web_client |-> web_client, rtm_client |-> rtm_client]

\* The session fields handle assigns before dispatching
SessionFor(parsed, ev) ==
    [channel |-> parsed[2], web_client |-> ev.web_client,
     rtm_client |-> ev.rtm_client]

\* handle from line 139 on, for a command that is not falsy
HandleCommand(queue, reg, parsed, ev, beh, fails) ==
    LET bot == [channel |-> SessionFor(parsed, ev).channel,
                web_client |-> SessionFor(parsed, ev).web_client,
                registry |-> reg, fails |-> fails]
    IN  HandleFlush(HandleTry(NewRun(queue), bot, parsed[1], beh), bot)

-----------------------------------------------------------------------------
(* Inputs *)

ChanC1 == <<"C", "1">>
ChanC2 == <<"C", "2">>
UnsetAttr == <<"Unset">>     \* bot.channel before handle first assigns it
NoClient == "None"           \* web_client / rtm_client as __init__ leaves them

U1 == <<"U", "1">>
W2 == <<"W", "2">>

Mention(id) == <<"<", "@">> \o id \o <<">">>

TPlain == Cping
TOther == Mention(W2) \o <<" ">> \o Cping
TEmpty == Mention(U1)
TBlank == Mention(U1) \o <<" ", " ">>
TPing == Mention(U1) \o <<" ">> \o Cping
TPingCap == Mention(U1) \o <<" ">> \o CPing
TUnknown == Mention(U1) \o <<" ", "f", "r", "o", "b", "n", "i", "c", "a", "t", "e">>
TSetname ==
    Mention(U1) \o <<" ">> \o Csetname
        \o <<" ", "A", "l", "i", "c", "e", " ", "e", "x", "t", "r", "a">>
TPingArgs == Mention(U1) \o <<" ">> \o Cping \o <<" ", "a", " ", "b">>
TOpenQuote == Mention(U1) \o <<" ">> \o Cping \o <<" ", "'", "x">>

Texts == {TPlain, TOther, TEmpty, TBlank, TPing, TPingCap, TUnknown, TSetname,
          TPingArgs, TOpenQuote}

Subtypes == {Unset, "message_changed"}

\* The transports' payloads: each channel is served through its own clients
Sources ==
    {[channel |-> ChanC1, web_client |-> "web1", rtm_client |-> "rtm1"],
     [channel |-> ChanC2, web_client |-> "web2", rtm_client |-> "rtm2"]}

Events ==
    {[text |-> t, channel |-> src.channel, subtype |-> s,
      web_client |-> src.web_client, rtm_client |-> src.rtm_client] :
        t \in Texts, src \in Sources, s \in Subtypes}

\* The messages a handler body enqueues, in this order: the first n of them
MsgList == <<"pong", "more", "again", "final">>

RECURSIVE SeqsUpTo(_, _)
SeqsUpTo(S, n) ==
    IF n = 0 THEN {<<>>}
    ELSE LET shorter == SeqsUpTo(S, n - 1)
         IN  shorter \cup {Append(q, x) : q \in shorter, x \in S}

\* What a handler body does: enqueue msgs, then return or raise
Behaviours ==
    {[msgs |-> SubSeq(MsgList, 1, n), exc |-> e] :
        n \in 0..MaxEnq, e \in {NoExc, "KeyError", "Exception"}}

NoBehaviour == [msgs |-> <<>>, exc |-> NoExc]

\* Whether a handler body runs for this command: only then does what the
\* body does matter.
EntersHandler(run) == run.calls # <<>> /\ run.calls[1].entered

BehavioursFor(reg, parsed, ev) ==
    IF EntersHandler(HandleCommand(<<>>, reg, parsed, ev, NoBehaviour, {}))
    THEN Behaviours
    ELSE {NoBehaviour}

ConfiguredIds == {None, U1}
AuthIds == {W2}

-----------------------------------------------------------------------------
(* The state machine *)

NoEvent ==
    [text |-> <<>>, channel |-> None, subtype |-> Unset,
     web_client |-> NoClient, rtm_client |-> NoClient]

Snapshot ==
    [queue |-> message_queue, channel |-> channel, web_client |-> web_client,
     rtm_client |-> rtm_client]

\* last while the transport waits for the next event
Idle ==
    [kind |-> "none", ev |-> NoEvent, parsed |-> <<None, None>>,
     pre |-> [queue |-> <<>>, channel |-> UnsetAttr,
              web_client |-> NoClient, rtm_client |-> NoClient],
     beh |-> NoBehaviour, run |-> NewRun(<<>>)]

\* cls._instance = None
NoInstance == [id |-> 0, BOT_ID |-> None]

\* The n-th object super().__call__ constructs: __init__ has stored the
\* configuration it was passed
Constructed(n, botId) == [id |-> n, BOT_ID |-> botId]

\* _lock when no thread holds it
Free == 0

Callers == 1..MaxCallers

NoArgs == [registry |-> FALSE, BOT_ID |-> None]

\* A thread that is not inside Slackish(...)
IdleCaller ==
    [pc |-> "idle", args |-> NoArgs, obj |-> NoInstance, ret |-> NoInstance,
     exc |-> NoExc]

Handlers == {1, 2}

\* A thread that is not inside handle
IdleHandler ==
    [pc |-> "idle", ev |-> NoEvent, parsed |-> <<None, None>>, ops |-> <<>>,
     sends |-> 0, ref |-> 0, idx |-> 0]

\* No thread has called Slackish(...) or handle yet
NoThreads ==
    /\ _lock = Free
    /\ callers = [t \in Callers |-> IdleCaller]
    /\ handlers = [h \in Handlers |-> IdleHandler]
    /\ detached = <<>>
    /\ outbox = <<>>
    /\ setBy = 0
    /\ overlapped = FALSE

\* The program has constructed its one Slackish(registry, BOT_ID=botId)
Started(botId) ==
    /\ _instance = Constructed(1, botId)
    /\ made = <<Constructed(1, botId)>>
    /\ NoThreads

\* startup before any Command(fn) or serve() call
NoStartup ==
    [kind |-> "none", fn |-> FnPing, before |-> <<>>, botId |-> None,
     trace |-> <<>>]

Init ==
    /\ BOT_ID \in ConfiguredIds
    /\ registry = <<>>
    /\ message_queue = <<>>
    /\ channel = UnsetAttr
    /\ web_client = NoClient
    /\ rtm_client = NoClient
    /\ authCalls = 0
    /\ serving = FALSE
    /\ startup = NoStartup
    /\ last = Idle
    /\ Started(BOT_ID)

\* Command(fn): a function is registered, at import time
Register ==
    /\ UNCHANGED <<singletonVars, raceVars>>
    /\ ~serving
    /\ \E fn \in Fns :
        /\ HasKey(registry, RegistryKey(fn)) \/ Len(registry) < MaxReg
        /\ registry' = CommandInit(registry, fn)
        /\ startup' = [NoStartup EXCEPT !.kind = "registered", !.fn = fn,
                                        !.before = registry]
    /\ UNCHANGED <<BOT_ID, message_queue, channel, web_client, rtm_client,
                   authCalls, serving, last>>

\* serve() without the test of line 81
MutAlwaysAuth(botId) == TRUE

\* Whether serve() asks the transport who the bot is
NeedsAuth(botId) == ~Truthy(botId)

\* serve(): resolves the bot identifier if none is configured, then starts
\* the transport, which delivers events from then on.  trace is what serve
\* calls on the transport, in order.
Serve ==
    /\ UNCHANGED <<singletonVars, raceVars>>
    /\ ~serving
    /\ IF NeedsAuth(BOT_ID)
       THEN /\ \E id \in AuthIds : BOT_ID' = id
            /\ authCalls' = authCalls + 1
            /\ startup' = [NoStartup EXCEPT !.kind = "served", !.botId = BOT_ID,
                                            !.trace = <<"auth.test", "start">>]
       ELSE /\ startup' = [NoStartup EXCEPT !.kind = "served", !.botId = BOT_ID,
                                            !.trace = <<"start">>]
            /\ UNCHANGED <<BOT_ID, authCalls>>
    /\ serving' = TRUE
    /\ UNCHANGED <<registry, message_queue, channel, web_client, rtm_client, last>>

\* RTMClient(...).start() returns (the transport was stopped or lost its
\* connection) and with it serve(): the program may register and serve again
StartReturns ==
    /\ UNCHANGED <<singletonVars, raceVars>>
    /\ serving
    /\ last.kind = "none"
    /\ serving' = FALSE
    /\ UNCHANGED <<BOT_ID, registry, message_queue, channel, web_client,
                   rtm_client, authCalls, startup, last>>

\* handle(**payload): one event out of events, processed to the end; failSets
\* are the sets of send attempts at which the transport may raise
HandleOf(events, failSets) ==
    /\ UNCHANGED <<singletonVars, raceVars>>
    /\ serving
    /\ last.kind = "none"
    /\ Len(message_queue) < MaxQueue
    /\ \E ev \in events :
        LET parsed == parse_bot_commands(BOT_ID, ev) IN
        IF ~Proceeds(parsed[1])
        THEN /\ last' = [kind |-> "discarded", ev |-> ev, parsed |-> parsed,
                         pre |-> Snapshot, beh |-> NoBehaviour,
                         run |-> NewRun(message_queue)]
             /\ UNCHANGED <<BOT_ID, registry, message_queue, channel, web_client,
                            rtm_client, authCalls, serving, startup>>
        ELSE /\ \E beh \in BehavioursFor(registry, parsed, ev),
                   fails \in failSets :
                  LET run == HandleCommand(message_queue, registry, parsed, ev,
                                           beh, fails)
                  IN  /\ message_queue' = run.queue
                      /\ channel' = SessionFor(parsed, ev).channel
                      /\ web_client' = SessionFor(parsed, ev).web_client
                      /\ rtm_client' = SessionFor(parsed, ev).rtm_client
                      /\ last' = [kind |-> "processed", ev |-> ev,
                                  parsed |-> parsed, pre |-> Snapshot,
                                  beh |-> beh, run |-> run]
             /\ UNCHANGED <<BOT_ID, registry, authCalls, serving, startup>>

\* handle(**payload) for any event, with a transport that may raise
Handle == HandleOf(Events, SUBSET (1..MaxFailIdx))

\* The transport goes back to waiting for the next event
AwaitEvent ==
    /\ UNCHANGED <<singletonVars, raceVars>>
    /\ last.kind # "none"
    /\ last' = Idle
    /\ UNCHANGED <<BOT_ID, registry, message_queue, channel, web_client,
                   rtm_client, authCalls, serving, startup>>

Next == Register \/ Serve \/ StartReturns \/ Handle \/ AwaitEvent

Spec == Init /\ [][Next]_vars

\* The same program with a transport that accepts every send
HandleAccepted == HandleOf(Events, {{}})

NextAccepted ==
    Register \/ Serve \/ StartReturns \/ HandleAccepted \/ AwaitEvent

SpecAccepted == Init /\ [][NextAccepted]_vars

-----------------------------------------------------------------------------
(* The mention parser on its own: parse_bot_commands applied to events, for *)
(* every configured bot identifier up to MaxIdLen characters.               *)

IdChars == {"U", "W", "B", "1", ">", "\n"}

AllIds == SeqsUpTo(IdChars, MaxIdLen)

FooBar == <<"f", "o", "o", " ", "b", "a", "r">>

\* "<@BOTID> foo bar"
MentionFooBar(id) == Mention(id) \o <<" ">> \o FooBar

ParseTexts(botId) ==
    {TPlain, MentionFooBar(U1)}
        \cup (IF botId = None THEN {} ELSE {MentionFooBar(botId)})

InitParse ==
    /\ BOT_ID \in AllIds \cup {None}
    /\ registry = <<>>
    /\ message_queue = <<>>
    /\ channel = UnsetAttr
    /\ web_client = NoClient
    /\ rtm_client = NoClient
    /\ authCalls = 0
    /\ serving = FALSE
    /\ startup = NoStartup
    /\ last = Idle
    /\ Started(BOT_ID)

\* parse_bot_commands(slack_event) is called
ParseStep ==
    /\ UNCHANGED <<singletonVars, raceVars>>
    /\ \E t \in ParseTexts(BOT_ID), src \in Sources, s \in Subtypes :
         LET ev == [text |-> t, channel |-> src.channel, subtype |-> s,
                    web_client |-> src.web_client,
                    rtm_client |-> src.rtm_client]
         IN  last' = [Idle EXCEPT !.kind = "parsed", !.ev = ev,
                                  !.parsed = parse_bot_commands(BOT_ID, ev)]
    /\ UNCHANGED <<BOT_ID, registry, message_queue, channel, web_client,
                   rtm_client, authCalls, serving, startup>>

NextParse == ParseStep

SpecParse == InitParse /\ [][NextParse]_vars

-----------------------------------------------------------------------------
(* The keyword pairing on its own: handle applied to mentions of the bot    *)
(* with the command line "setname t0 t1 ... tk-1", for every list of up to  *)
(* MaxArgs tokens, setname being registered and every send being accepted.  *)

ArgTokens == {<<"a">>, <<"b">>, <<"c">>}

\* " ".join(words)
RECURSIVE JoinWords(_)
JoinWords(words) ==
    IF words = <<>> THEN <<>>
    ELSE IF Len(words) = 1 THEN words[1]
    ELSE words[1] \o <<" ">> \o JoinWords(Tail(words))

PairTexts ==
    {Mention(U1) \o <<" ">> \o JoinWords(<<Csetname>> \o args) :
        args \in SeqsUpTo(ArgTokens, MaxArgs)}

PairEvents ==
    {[text |-> t, channel |-> src.channel, subtype |-> Unset,
      web_client |-> src.web_client, rtm_client |-> src.rtm_client] :
        t \in PairTexts, src \in Sources}

\* The program has registered setname and serves as U1
InitPairs ==
    /\ BOT_ID = U1
    /\ registry = CommandInit(<<>>, FnSetname)
    /\ message_queue = <<>>
    /\ channel = UnsetAttr
    /\ web_client = NoClient
    /\ rtm_client = NoClient
    /\ authCalls = 0
    /\ serving = TRUE
    /\ startup = [NoStartup EXCEPT !.kind = "served", !.botId = U1,
                                   !.trace = <<"start">>]
    /\ last = Idle
    /\ Started(BOT_ID)

\* handle(**payload) for a setname command, every send being accepted
HandlePairs == HandleOf(PairEvents, {{}})

NextPairs == HandlePairs \/ AwaitEvent

SpecPairs == InitPairs /\ [][NextPairs]_vars

-----------------------------------------------------------------------------
(* The singleton on its own: threads call Slackish(...) concurrently, one   *)
(* step per line of SingletonMeta.__call__.  BOT_ID is the configuration of *)
(* the object bound to _instance.                                           *)

\* The arguments of a call: Slackish(registry, BOT_ID=id), or Slackish() as
\* handle calls it
CallArgs ==
    {[registry |-> TRUE, BOT_ID |-> id] : id \in ConfiguredIds} \cup {NoArgs}

InitSingleton ==
    /\ BOT_ID = None
    /\ registry = <<>>
    /\ message_queue = <<>>
    /\ channel = UnsetAttr
    /\ web_client = NoClient
    /\ rtm_client = NoClient
    /\ authCalls = 0
    /\ serving = FALSE
    /\ startup = NoStartup
    /\ last = Idle
    /\ _instance = NoInstance
    /\ made = <<>>
    /\ NoThreads

singletonFrame ==
    <<registry, message_queue, channel, web_client, rtm_client, authCalls,
      serving, startup, last, raceVars>>

\* A thread calls Slackish(...)
Call(t) ==
    /\ callers[t].pc \in {"idle", "returned", "raised"}
    /\ \E a \in CallArgs :
          callers' = [callers EXCEPT ![t] = [IdleCaller EXCEPT !.pc = "l23",
                                                               !.args = a]]
    /\ UNCHANGED <<BOT_ID, _instance, _lock, made, singletonFrame>>

\* A SingletonMeta.__call__ without the lock
MutNoLock(lock) == TRUE

\* Whether "with cls._lock" can be entered
CanAcquire(lock) == lock = Free

\* line 23: with cls._lock
Acquire(t) ==
    /\ callers[t].pc = "l23"
    /\ CanAcquire(_lock)
    /\ _lock' = t
    /\ callers' = [callers EXCEPT ![t].pc = "l24"]
    /\ UNCHANGED <<BOT_ID, _instance, made, singletonFrame>>

\* line 24: if not cls._instance
Test(t) ==
    /\ callers[t].pc = "l24"
    /\ callers' = [callers EXCEPT
                      ![t].pc = IF _instance = NoInstance THEN "l25" ELSE "exit"]
    /\ UNCHANGED <<BOT_ID, _instance, _lock, made, singletonFrame>>

\* line 25, right-hand side: super().__call__(*args, **kwargs) makes an
\* object and runs __init__ on it, which raises TypeError without a registry
Construct(t) ==
    /\ callers[t].pc = "l25"
    /\ IF callers[t].args.registry
       THEN LET obj == Constructed(Len(made) + 1, callers[t].args.BOT_ID) IN
            /\ made' = Append(made, obj)
            /\ callers' = [callers EXCEPT ![t].pc = "l25_assign", ![t].obj = obj]
       ELSE /\ callers' = [callers EXCEPT ![t].pc = "exit",
                                          ![t].exc = "TypeError"]
            /\ UNCHANGED made
    /\ UNCHANGED <<BOT_ID, _instance, _lock, singletonFrame>>

\* line 25, assignment: cls._instance = the new object
Assign(t) ==
    /\ callers[t].pc = "l25_assign"
    /\ _instance' = callers[t].obj
    /\ BOT_ID' = callers[t].obj.BOT_ID
    /\ callers' = [callers EXCEPT ![t].pc = "exit"]
    /\ UNCHANGED <<_lock, made, singletonFrame>>

\* The with block is left: the lock is released
Release(t) ==
    /\ callers[t].pc = "exit"
    /\ _lock' = Free
    /\ callers' = [callers EXCEPT
                      ![t].pc = IF callers[t].exc # NoExc THEN "raised" ELSE "l26"]
    /\ UNCHANGED <<BOT_ID, _instance, made, singletonFrame>>

\* line 26: return cls._instance
Return(t) ==
    /\ callers[t].pc = "l26"
    /\ callers' = [callers EXCEPT ![t].pc = "returned", ![t].ret = _instance]
    /\ UNCHANGED <<BOT_ID, _instance, _lock, made, singletonFrame>>

NextSingleton ==
    \E t \in Callers :
        \/ Call(t)
        \/ Acquire(t)
        \/ Test(t)
        \/ Construct(t)
        \/ Assign(t)
        \/ Release(t)
        \/ Return(t)

SpecSingleton == InitSingleton /\ [][NextSingleton]_vars

-----------------------------------------------------------------------------
(* Concurrent handle calls: two threads run handle on the one Slackish      *)
(* instance, each with one event of its own channel, one step per statement *)
(* that reads or writes the shared session (channel, web_client,            *)
(* rtm_client) or the shared message_queue.  No send raises here.           *)

\* The message the handler enqueues for the event of handler h
Reply(h) == MsgList[h]

RaceTexts == {TPing, TUnknown, TPlain}

RaceEvents(h) ==
    {[text |-> t, channel |-> src.channel, subtype |-> Unset,
      web_client |-> src.web_client, rtm_client |-> src.rtm_client] :
        t \in RaceTexts,
        src \in {x \in Sources :
                    x.channel = (IF h = 1 THEN ChanC1 ELSE ChanC2)}}

RaceBehaviours(h) ==
    {[msgs |-> <<Reply(h)>>, exc |-> e] : e \in {NoExc, "Exception"}}

\* What the try block of handle (lines 146-151) does to the shared state, in
\* program order: the handler's Slackish.send calls, then the posts of the
\* except blocks
TryOps(reg, parsed, ev, beh) ==
    LET bot == [channel |-> parsed[2], web_client |-> ev.web_client,
                registry |-> reg, fails |-> {}]
        run == HandleTry(NewRun(<<>>), bot, parsed[1], beh)
    IN  [i \in 1..Len(run.queue) |-> [op |-> "send", text |-> run.queue[i]]]
            \o [i \in 1..Len(run.sent) |->
                    [op |-> "post", text |-> run.sent[i].text]]

\* The list object a reference denotes: the g-th list message_queue has been
\* bound to
ListOf(g) == IF g <= Len(detached) THEN detached[g] ELSE message_queue

\* The list object message_queue is bound to now
CurrentRef == Len(detached) + 1

\* A post that goes to the channel of the caller's own event
MutOwnChannel(h) == handlers[h].parsed[2]

\* The channel a chat_postMessage call of handler h goes to: bot.channel
PostChannel(h) == channel

\* post(message) by handler h
PostBy(h, text) ==
    [channel |-> PostChannel(h), client |-> web_client, text |-> text,
     by |-> h, setBy |-> setBy]

InitRace ==
    /\ BOT_ID = U1
    /\ registry = CommandInit(<<>>, FnPing)
    /\ message_queue = <<>>
    /\ channel = UnsetAttr
    /\ web_client = NoClient
    /\ rtm_client = NoClient
    /\ authCalls = 0
    /\ serving = TRUE
    /\ startup = [NoStartup EXCEPT !.kind = "served", !.botId = U1,
                                   !.trace = <<"start">>]
    /\ last = Idle
    /\ Started(BOT_ID)

raceFrame ==
    <<BOT_ID, registry, authCalls, serving, startup, last, singletonVars>>

\* lines 131-137: the transport calls handle on thread h
Deliver(h) ==
    /\ handlers[h].pc = "idle"
    /\ \E ev \in RaceEvents(h) :
          LET parsed == parse_bot_commands(BOT_ID, ev) IN
          IF ~Proceeds(parsed[1])
          THEN handlers' = [handlers EXCEPT ![h] = [IdleHandler EXCEPT
                               !.pc = "done", !.ev = ev, !.parsed = parsed]]
          ELSE \E beh \in (IF EntersHandler(HandleCommand(<<>>, registry, parsed,
                                                          ev, NoBehaviour, {}))
                           THEN RaceBehaviours(h) ELSE {NoBehaviour}) :
                  handlers' = [handlers EXCEPT ![h] = [IdleHandler EXCEPT
                                  !.pc = "l139", !.ev = ev, !.parsed = parsed,
                                  !.ops = TryOps(registry, parsed, ev, beh)]]
    /\ overlapped' = (overlapped \/ \E g \in Handlers \ {h} :
                                       handlers[g].pc \notin {"idle", "done"})
    /\ UNCHANGED <<message_queue, channel, web_client, rtm_client, detached,
                   outbox, setBy, raceFrame>>

\* line 139: bot.channel = channel
SetChannel(h) ==
    /\ handlers[h].pc = "l139"
    /\ channel' = handlers[h].parsed[2]
    /\ setBy' = h
    /\ handlers' = [handlers EXCEPT ![h].pc = "l140"]
    /\ UNCHANGED <<message_queue, web_client, rtm_client, detached, outbox,
                   overlapped, raceFrame>>

\* line 140: bot.web_client = payload['web_client']
SetWebClient(h) ==
    /\ handlers[h].pc = "l140"
    /\ web_client' = handlers[h].ev.web_client
    /\ handlers' = [handlers EXCEPT ![h].pc = "l141"]
    /\ UNCHANGED <<message_queue, channel, rtm_client, detached, outbox, setBy,
                   overlapped, raceFrame>>

\* line 141: bot.rtm_client = payload['rtm_client']
SetRtmClient(h) ==
    /\ handlers[h].pc = "l141"
    /\ rtm_client' = handlers[h].ev.rtm_client
    /\ handlers' = [handlers EXCEPT ![h].pc = "try"]
    /\ UNCHANGED <<message_queue, channel, web_client, detached, outbox, setBy,
                   overlapped, raceFrame>>

\* Slackish.send(message) in the handler body: cls.message_queue.append
Enqueue(h) ==
    /\ handlers[h].pc = "try"
    /\ handlers[h].ops # <<>>
    /\ Head(handlers[h].ops).op = "send"
    /\ message_queue' = Append(message_queue, Head(handlers[h].ops).text)
    /\ handlers' = [handlers EXCEPT ![h].ops = Tail(@), ![h].sends = @ + 1]
    /\ UNCHANGED <<channel, web_client, rtm_client, detached, outbox, setBy,
                   overlapped, raceFrame>>

\* post / error in an except block
Post(h) ==
    /\ handlers[h].pc = "try"
    /\ handlers[h].ops # <<>>
    /\ Head(handlers[h].ops).op = "post"
    /\ outbox' = Append(outbox, PostBy(h, Head(handlers[h].ops).text))
    /\ handlers' = [handlers EXCEPT ![h].ops = Tail(@)]
    /\ UNCHANGED <<message_queue, channel, web_client, rtm_client, detached,
                   setBy, overlapped, raceFrame>>

\* line 153: Slackish.message_queue is evaluated and flush starts on that list
FlushStart(h) ==
    /\ handlers[h].pc = "try"
    /\ handlers[h].ops = <<>>
    /\ handlers' = [handlers EXCEPT ![h].pc = "l127", ![h].ref = CurrentRef,
                                    ![h].idx = 1]
    /\ UNCHANGED <<message_queue, channel, web_client, rtm_client, detached,
                   outbox, setBy, overlapped, raceFrame>>

\* lines 127-128: the next message of the list is posted
FlushPost(h) ==
    /\ handlers[h].pc = "l127"
    /\ handlers[h].idx <= Len(ListOf(handlers[h].ref))
    /\ outbox' = Append(outbox, PostBy(h, ListOf(handlers[h].ref)[handlers[h].idx]))
    /\ handlers' = [handlers EXCEPT ![h].idx = @ + 1]
    /\ UNCHANGED <<message_queue, channel, web_client, rtm_client, detached,
                   setBy, overlapped, raceFrame>>

\* line 127: the list is exhausted
FlushEnd(h) ==
    /\ handlers[h].pc = "l127"
    /\ handlers[h].idx > Len(ListOf(handlers[h].ref))
    /\ handlers' = [handlers EXCEPT ![h].pc = "l154"]
    /\ UNCHANGED <<message_queue, channel, web_client, rtm_client, detached,
                   outbox, setBy, overlapped, raceFrame>>

\* line 154: Slackish.message_queue = [], a new list; the old one stays with
\* whoever still iterates over it
Rebind(h) ==
    /\ handlers[h].pc = "l154"
    /\ detached' = Append(detached, message_queue)
    /\ message_queue' = <<>>
    /\ handlers' = [handlers EXCEPT ![h].pc = "done"]
    /\ UNCHANGED <<channel, web_client, rtm_client, outbox, setBy, overlapped,
                   raceFrame>>

NextRace ==
    \E h \in Handlers :
        \/ Deliver(h)
        \/ SetChannel(h)
        \/ SetWebClient(h)
        \/ SetRtmClient(h)
        \/ Enqueue(h)
        \/ Post(h)
        \/ FlushStart(h)
        \/ FlushPost(h)
        \/ FlushEnd(h)
        \/ Rebind(h)

SpecRace == InitRace /\ [][NextRace]_vars

-----------------------------------------------------------------------------
(* Properties *)

Processed == last.kind = "processed"
Discarded == last.kind = "discarded"

\* The texts of the sends handle made, in order
SentTexts == [i \in 1..Len(last.run.sent) |-> last.run.sent[i].text]

\* Every chat_postMessage call of the event returned
AllSendsAccepted == last.run.attempts = Len(last.run.sent)

\* The help texts of the registered commands, in registry order
HelpTexts == [i \in 1..Len(registry) |-> registry[i].desc.help]

\* The handler body ran and returned / raised
HandlerReturned == Processed /\ EntersHandler(last.run) /\ last.beh.exc = NoExc
HandlerRaised == Processed /\ EntersHandler(last.run) /\ last.beh.exc # NoExc

\* The tokens of the command line handle dispatched
LastWords == ShlexSplit(last.parsed[1])

\* C1: an event that carries a subtype is discarded by handle without any
\* send: no chat_postMessage call is made at all, whatever the text, the
\* channel and the configured bot identifier.
C1_SubtypeNoSend ==
    (last.kind # "none" /\ last.ev.subtype # Unset)
        => /\ Discarded
           /\ last.run.sent = <<>>
           /\ last.run.attempts = 0

C1_Witness ==
    /\ Discarded
    /\ last.ev.subtype # Unset
    /\ last.ev.text = TPing
    /\ BOT_ID = U1
    /\ HasKey(registry, Cping)

\* C2 (as claimed): when the handler enqueues m1..mn and returns normally, and
\* every send of the event is accepted, the sends of the event are exactly
\* m1..mn, in order, each to the event's channel.
C2_ExactlyTheEnqueued ==
    (HandlerReturned /\ AllSendsAccepted)
        => /\ SentTexts = last.beh.msgs
           /\ \A i \in 1..Len(last.run.sent) :
                 last.run.sent[i].channel = last.ev.channel

\* C3 (as claimed): an error raised by the handler is caught in handle and not
\* in command_to_fn_call, the posts are the fallback and then one help post
\* per registered command, and nothing escapes handle.
C3_HandlerErrorCaughtInHandle ==
    (HandlerRaised /\ AllSendsAccepted)
        => /\ last.run.caughtBy = <<[by |-> "handle", exc |-> last.beh.exc]>>
           /\ Len(SentTexts) >= 1 + Len(registry)
           /\ SubSeq(SentTexts, 1, 1 + Len(registry))
                 = <<"I'm sorry, I don't understand! ">> \o HelpTexts
           /\ last.run.exc = NoExc

\* C4: a command line whose lowercased first token is no key of the registry
\* gets (every send being accepted) exactly one post "Error: Invalid command!",
\* then one help post per registered command in registry order; no handler is
\* called and no fallback post is made: whatever else is sent is the flushed
\* queue.
C4_UnknownCommand ==
    (/\ Processed
     /\ AllSendsAccepted
     /\ LastWords.exc = NoExc
     /\ LastWords.words # <<>>
     /\ Lower(LastWords.words[1]) \notin RegKeys(registry))
        => /\ SentTexts = <<"Error: Invalid command!">> \o HelpTexts \o last.pre.queue
           /\ last.run.calls = <<>>
           /\ \A i \in 1..Len(SentTexts) :
                 SentTexts[i] # "I'm sorry, I don't understand! "
           /\ last.run.caughtBy = <<[by |-> "command_to_fn_call", exc |-> "KeyError"]>>

C4_Witness ==
    /\ Processed
    /\ AllSendsAccepted
    /\ last.ev.text = TUnknown
    /\ Len(registry) = 2
    /\ Len(SentTexts) = 3

\* C5: whenever handle has processed a command (handler returned, handler
\* raised, or unknown command) and returned, message_queue is empty, whatever
\* it held when the event arrived.
C5_QueueEmptyAfterHandle ==
    (Processed /\ last.run.exc = NoExc) => message_queue = <<>>

C5_Witness ==
    /\ Processed
    /\ last.run.exc = NoExc
    /\ last.pre.queue # <<>>
    /\ last.beh.msgs # <<>>
    /\ message_queue = <<>>

\* C6 (as claimed): whatever happens while an event is processed (unknown
\* command, handler error, tokenizer error, failing send), no exception escapes
\* handle.
C6_NothingEscapesHandle ==
    Processed => last.run.exc = NoExc

\* The cases C7 lists: no leading mention, a mention of another identity, a
\* mention of the bot with an empty or blank remainder.
C7_ListedCase ==
    \/ last.ev.text = TPlain
    \/ last.ev.text = TOther /\ BOT_ID = U1
    \/ last.ev.text \in {TEmpty, TBlank} /\ BOT_ID = U1
    \/ last.ev.text \in (Texts \ {TPlain, TOther}) /\ BOT_ID = W2

\* C7: an event whose parsed command line is falsy is discarded: no send is
\* attempted, and channel, web_client, rtm_client and message_queue are what
\* they were before the event.
C7_FalsyCommandDiscarded ==
    (last.kind # "none" /\ (~Truthy(last.parsed[1]) \/ C7_ListedCase))
        => /\ Discarded
           /\ ~Truthy(last.parsed[1])
           /\ last.run.attempts = 0
           /\ last.run.sent = <<>>
           /\ channel = last.pre.channel
           /\ web_client = last.pre.web_client
           /\ rtm_client = last.pre.rtm_client
           /\ message_queue = last.pre.queue

C7_Witness ==
    /\ Discarded
    /\ last.ev.subtype = Unset
    /\ last.ev.text = TBlank
    /\ BOT_ID = U1
    /\ last.parsed[1] = <<>>
    /\ channel # UnsetAttr
    /\ channel # last.ev.channel
    /\ message_queue # <<>>

CmdSetnameAliceExtra ==
    Csetname \o <<" ", "A", "l", "i", "c", "e", " ", "e", "x", "t", "r", "a">>
Alice == <<"A", "l", "i", "c", "e">>
Extra == <<"e", "x", "t", "r", "a">>

\* C8 (as claimed): "setname Alice extra" calls the handler with the keyword
\* arguments {setname -> Alice} and drops "extra".
C8_SetnameAliceOnly ==
    (Processed /\ last.parsed[1] = CmdSetnameAliceExtra /\ HasKey(registry, Csetname))
        => /\ Len(last.run.calls) = 1
           /\ last.run.calls[1].kwargs = (Csetname :> Alice)

\* C8 (amended): "setname Alice extra" looks up the command key setname and
\* calls its handler once with the keyword arguments {Alice -> extra}: the
\* first token is the command key and no token is dropped.
C8_AliceExtra ==
    (Processed /\ last.parsed[1] = CmdSetnameAliceExtra /\ HasKey(registry, Csetname))
        => last.run.calls
              = <<[fn |-> RegGet(registry, Csetname).cmd.id,
                   kwargs |-> (Alice :> Extra), entered |-> TRUE]>>

C8_Witness ==
    /\ Processed
    /\ last.ev.text = TSetname
    /\ Len(last.run.calls) = 1
    /\ last.run.calls[1].fn = "setname"
    /\ last.run.calls[1].entered
    /\ DOMAIN last.run.calls[1].kwargs = {Alice}

\* C9 (as claimed): a command line whose first token is a registered name
\* calls the handler of the descriptor registered under that name.
C9_RegisteredNameDispatches ==
    (/\ Processed
     /\ LastWords.exc = NoExc
     /\ LastWords.words # <<>>
     /\ Len(LastWords.words) = 1
     /\ HasKey(registry, LastWords.words[1]))
        => /\ Len(last.run.calls) = 1
           /\ last.run.calls[1].fn = RegGet(registry, LastWords.words[1]).cmd.id

\* C10 (as claimed): for every configured BOTID, parse_bot_commands of an
\* event without subtype whose text is "<@BOTID> foo bar" is
\* ("foo bar", channel).
C10_AnyBotId ==
    (/\ last.kind = "parsed"
     /\ BOT_ID # None
     /\ last.ev.subtype = Unset
     /\ last.ev.text = MentionFooBar(BOT_ID))
        => last.parsed = <<FooBar, last.ev.channel>>

\* An identifier the default pattern can capture whole: empty, or W or U
\* followed by at least one character, with no newline and with no ">" after
\* its second character.
SlackStyleId(id) ==
    \/ id = <<>>
    \/ /\ id # None
       /\ Len(id) >= 2
       /\ id[1] \in {"W", "U"}
       /\ \A i \in 2..Len(id) : id[i] # "\n"
       /\ \A i \in 3..Len(id) : id[i] # ">"

\* C10 (amended): for every configured BOTID that is empty or is W or U
\* followed by at least one character, holds no newline and holds no ">"
\* after its second character, parse_bot_commands of an event without subtype
\* whose text is "<@BOTID> foo bar" is ("foo bar", channel).
C10_SlackStyleBotId ==
    (/\ last.kind = "parsed"
     /\ SlackStyleId(BOT_ID)
     /\ last.ev.subtype = Unset
     /\ last.ev.text = MentionFooBar(BOT_ID))
        => last.parsed = <<FooBar, last.ev.channel>>

C10_Witness ==
    /\ last.kind = "parsed"
    /\ BOT_ID = <<"W", ">", "1">>
    /\ last.ev.subtype = Unset
    /\ last.ev.text = MentionFooBar(BOT_ID)
    /\ last.ev.channel = ChanC2
    /\ last.parsed = <<FooBar, ChanC2>>

\* The event has no subtype and its text starts with a mention (a match of
\* the mention pattern) of the configured bot identifier.
MentionsBot(botId, ev) ==
    /\ ev.subtype = Unset
    /\ MENTION_REGEX(ev.text)[1]
    /\ MENTION_REGEX(ev.text)[2] = botId

\* C11 (as claimed): in every case other than "no subtype and the leading
\* mention is the configured bot identifier" parse_bot_commands returns
\* (None, None): with a subtype, without a leading mention, with a mention of
\* another identity, also while BOT_ID is None.
C11_NoneNoneOtherwise ==
    (last.kind = "parsed" /\ ~MentionsBot(BOT_ID, last.ev))
        => last.parsed = <<None, None>>

\* The tokens after the command key
LastArgs == Tail(LastWords.words)

\* C14: for a registered command the tokens t0 .. tk-1 after the command key
\* are passed to the handler as the keyword arguments {t0 -> t1, t2 -> t3, ..}:
\* the keys are the tokens at even positions that have a successor, a repeated
\* key has the value of its last occurrence, distinct keys give floor(k/2)
\* pairs, and a final unpaired token is dropped: when the handler returns, no
\* exception is caught or raised and nothing but the queue is posted.
C14_PairsOfTokens ==
    (/\ Processed
     /\ LastWords.exc = NoExc
     /\ LastWords.words # <<>>
     /\ HasKey(registry, Lower(LastWords.words[1])))
        => LET t == LastArgs
               n == Len(t) \div 2
               kw == last.run.calls[1].kwargs
           IN  /\ Len(last.run.calls) = 1
               /\ DOMAIN kw = {t[2 * i - 1] : i \in 1..n}
               /\ \A i \in 1..n :
                     (\A j \in (i + 1)..n : t[2 * j - 1] # t[2 * i - 1])
                         => kw[t[2 * i - 1]] = t[2 * i]
               /\ (\A i, j \in 1..n : i # j => t[2 * i - 1] # t[2 * j - 1])
                     => Cardinality(DOMAIN kw) = n
               /\ (HandlerReturned /\ AllSendsAccepted)
                     => /\ last.run.caughtBy = <<>>
                        /\ last.run.exc = NoExc
                        /\ SentTexts = last.pre.queue \o last.beh.msgs

C14_Witness ==
    /\ HandlerReturned
    /\ LastArgs = <<<<"a">>, <<"b">>, <<"a">>, <<"c">>>>
    /\ last.run.calls[1].kwargs = (<<"a">> :> <<"c">>)
    /\ last.beh.msgs = <<"pong">>
    /\ SentTexts = <<"pong">>

\* The descriptor Command.__init__ builds for fn
Descriptor(fn) == [cmd |-> fn, argnames |-> fn.varnames, help |-> fn.doc]

\* C15: after Command(fn) the registry holds fn's descriptor under fn's name,
\* whether or not the name was registered before (the last registration
\* wins), and every other name is registered exactly as it was before, with
\* the descriptor it had.
C15_LastRegistrationWins ==
    startup.kind = "registered"
        => LET key == startup.fn.name IN
           /\ HasKey(registry, key)
           /\ RegGet(registry, key) = Descriptor(startup.fn)
           /\ RegKeys(registry) = RegKeys(startup.before) \cup {key}
           /\ Len(registry) = Cardinality(RegKeys(registry))
           /\ \A k \in RegKeys(startup.before) \ {key} :
                 RegGet(registry, k) = RegGet(startup.before, k)

C15_Witness ==
    /\ startup.kind = "registered"
    /\ startup.fn = FnPingAgain
    /\ HasKey(startup.before, Cping)
    /\ RegGet(startup.before, Cping) = Descriptor(FnPing)
    /\ HasKey(startup.before, Csetname)
    /\ RegGet(registry, Cping) = Descriptor(FnPingAgain)
    /\ RegGet(registry, Csetname) = Descriptor(FnSetname)

\* C16: serve() calls auth.test exactly when no bot identifier is configured,
\* and then before it starts the event loop; with a configured identifier it
\* starts the event loop only and leaves the identifier alone.  Over all the
\* serve() calls of a run auth.test is called at most once, and once it has
\* been called the identifier it returned is the configured one.
C16_AuthOnlyWhenUnconfigured ==
    /\ authCalls <= 1
    /\ authCalls = 1 => BOT_ID \in AuthIds
    /\ authCalls = 0 => BOT_ID \in ConfiguredIds
    /\ startup.kind = "served"
          => /\ startup.botId = None => startup.trace = <<"auth.test", "start">>
             /\ startup.botId # None
                   => startup.trace = <<"start">> /\ BOT_ID = startup.botId
    /\ serving => BOT_ID # None

C16_Witness ==
    /\ serving
    /\ startup.kind = "served"
    /\ startup.botId = W2
    /\ startup.trace = <<"start">>
    /\ authCalls = 1

\* The texts handle posts at once: the error post, the fallback post and the
\* help posts
ImmediateTexts ==
    {"Error: Invalid command!", "I'm sorry, I don't understand! "}
        \cup {HelpTexts[i] : i \in 1..Len(HelpTexts)}

\* The messages in the queue when handle flushes: what the queue held when
\* the event arrived, then what the handler enqueued
Queued == last.pre.queue \o last.beh.msgs

\* C17: the sends of one event are its immediate posts (error or fallback
\* post, help posts) followed by the queued messages in the order they were
\* enqueued: no queued message precedes an immediate post, a send that raises
\* cuts the queued messages short, and when handle returns all of them have
\* been sent.  The messages a handler enqueued before it raised are sent in
\* the same event, after the post and the help posts its error caused.
C17_ImmediateBeforeQueued ==
    Processed
        => \E k \in 0..Len(SentTexts) :
              LET rest == SubSeq(SentTexts, k + 1, Len(SentTexts)) IN
              /\ \A i \in 1..k : SentTexts[i] \in ImmediateTexts
              /\ Len(rest) <= Len(Queued)
              /\ rest = SubSeq(Queued, 1, Len(rest))
              /\ last.run.exc = NoExc => rest = Queued
              /\ (HandlerRaised /\ AllSendsAccepted)
                    => /\ k = 1 + Len(registry)
                       /\ SubSeq(SentTexts, 2, k) = HelpTexts
                       /\ rest = Queued

C17_Witness ==
    /\ HandlerRaised
    /\ AllSendsAccepted
    /\ last.beh.exc = "Exception"
    /\ last.pre.queue = <<"pong">>
    /\ last.beh.msgs = <<"pong", "more">>
    /\ Len(registry) = 2
    /\ SentTexts = <<"I'm sorry, I don't understand! ">> \o HelpTexts
                       \o <<"pong", "pong", "more">>

\* C18: with a transport that accepts every send, events being delivered one
\* at a time, every send of an event goes to that event's channel through
\* that event's web_client; nothing is in the queue when an event arrives or
\* when handle is done, so a queued message is sent in the event that
\* enqueued it, once, after the immediate posts, and in no later event.
C18_OwnChannelOwnEvent ==
    /\ last.kind = "none" => message_queue = <<>>
    /\ Discarded => last.run.sent = <<>> /\ message_queue = <<>>
    /\ Processed
          => /\ \A i \in 1..Len(last.run.sent) :
                   /\ last.run.sent[i].channel = last.ev.channel
                   /\ last.run.sent[i].client = last.ev.web_client
                   /\ last.run.sent[i].channel # UnsetAttr
                   /\ last.run.sent[i].client # NoClient
             /\ last.pre.queue = <<>>
             /\ message_queue = <<>>
             /\ last.run.exc = NoExc
             /\ LET n == Len(SentTexts)
                     m == Len(last.beh.msgs)
                 IN  /\ m <= n
                     /\ SubSeq(SentTexts, n - m + 1, n) = last.beh.msgs
                     /\ \A i \in 1..(n - m) : SentTexts[i] \in ImmediateTexts

C18_Witness ==
    /\ Processed
    /\ last.pre.channel = ChanC1
    /\ last.pre.web_client = "web1"
    /\ last.ev.channel = ChanC2
    /\ last.beh.msgs = <<"pong", "more">>
    /\ last.run.sent
          = <<[channel |-> ChanC2, client |-> "web2", text |-> "pong"],
              [channel |-> ChanC2, client |-> "web2", text |-> "more"]>>

\* C13: under every interleaving of concurrent Slackish(...) calls at most
\* one object is ever constructed (__init__ runs at most once), every call
\* that returns returns that object, and _instance and its configuration stay
\* what the constructing call made them, whatever later calls pass.
C13_OneInstance ==
    /\ Len(made) <= 1
    /\ _instance # NoInstance
          => /\ made # <<>>
             /\ _instance = made[1]
             /\ BOT_ID = made[1].BOT_ID
    /\ \A t \in Callers :
          callers[t].pc = "returned"
              => /\ made # <<>>
                 /\ callers[t].ret = made[1]
                 /\ callers[t].ret = _instance

\* Both threads have returned the one object although the second passed
\* another configuration
C13_Witness ==
    /\ callers[1].pc = "returned"
    /\ callers[2].pc = "returned"
    /\ callers[1].args = [registry |-> TRUE, BOT_ID |-> U1]
    /\ callers[2].args = [registry |-> TRUE, BOT_ID |-> None]
    /\ callers[1].ret = callers[2].ret
    /\ callers[1].ret = Constructed(1, U1)
    /\ BOT_ID = U1

\* How often text has been sent
TimesSent(text) == Cardinality({i \in 1..Len(outbox) : outbox[i].text = text})

AllDone == \A h \in Handlers : handlers[h].pc = "done"

\* C12: the session is shared by concurrent handle calls.  Every send goes to
\* the channel that the handler which last executed line 139 assigned,
\* whichever handler makes the send; only when the two handle calls do not
\* overlap is that always the sender's own channel and client, and is every
\* message a handler enqueued sent exactly once by the time it is done.
C12_SendsFollowSharedSession ==
    /\ \A i \in 1..Len(outbox) :
          /\ outbox[i].setBy \in Handlers
          /\ outbox[i].channel = handlers[outbox[i].setBy].ev.channel
    /\ ~overlapped
          => /\ \A i \in 1..Len(outbox) :
                   /\ outbox[i].channel = handlers[outbox[i].by].ev.channel
                   /\ outbox[i].client = handlers[outbox[i].by].ev.web_client
             /\ \A h \in Handlers :
                   handlers[h].pc = "done"
                       => TimesSent(Reply(h)) = handlers[h].sends

\* Both events processed, concurrently: the reply to the event of channel C1
\* went to channel C2, and the reply to the event of C2 was never sent
C12_Witness ==
    /\ AllDone
    /\ overlapped
    /\ handlers[1].sends = 1
    /\ handlers[2].sends = 1
    /\ \E i \in 1..Len(outbox) :
          /\ outbox[i].text = Reply(1)
          /\ outbox[i].by = 1
          /\ outbox[i].channel = ChanC2
    /\ TimesSent(Reply(2)) = 0

\* Both events processed, concurrently: a message was sent twice
C12_SentTwice ==
    /\ AllDone
    /\ \E h \in Handlers : TimesSent(Reply(h)) = 2

=============================================================================
